---- MODULE Spec2Model ----
(***************************************************************************)
(* A model of src/Main.js: the orchestrator main(), Bot.connect,           *)
(* Bot.getSession, Bot.sendPing, ProxyChecker.buildProxyConfig, readLines  *)
(* and the Node.js runtime pieces they rely on (the interval timer, the    *)
(* SIGINT listeners, process exit).                                        *)
(*                                                                         *)
(* One action is one run-to-completion step of the event loop: a handler   *)
(* together with the promise continuations it makes runnable.  Time is in  *)
(* milliseconds, as Date.now() reports it.                                 *)
(***************************************************************************)
EXTENDS Integers, Sequences, FiniteSets, TLC

VARIABLES
    tokenFile,   \* token.txt: a sequence of raw lines
    proxyFile,   \* proxy.txt: a sequence of raw lines
    mainPc,      \* where main() stands
    tokens,      \* const tokens  (line 227)
    proxies,     \* const proxies (line 234)
    token,       \* const token   (line 240)
    task,        \* per proxy entry: the state of its bot.connect promise
    sessionReq,  \* per proxy entry: the session request put on the wire, or NoRequest
    accountInfo, \* per proxy entry: const accountInfo (line 89)
    timer,       \* per proxy entry: the setInterval handle (line 98)
    nextFire,    \* per proxy entry: the instant the timer is due next
    inflight,    \* per proxy entry: the heartbeat requests awaiting their response
    pings,       \* per proxy entry: the heartbeat requests issued so far, in order
    log,         \* per proxy entry: the logger records written for it, in order
    listeners,   \* the SIGINT listeners, in registration order
    sigints,     \* the number of SIGINTs delivered so far
    proc,        \* "running" or "exited"
    exitCode,    \* the exit code once exited
    now          \* the wall clock, ms

vars == <<tokenFile, proxyFile, mainPc, tokens, proxies, token, task, sessionReq,
          accountInfo, timer, nextFire, inflight, pings, log, listeners, sigints,
          proc, exitCode, now>>

\* ------------------------------------------------------------------ bounds

\* the longest proxy.txt considered, in lines
MaxProxies == 2
\* the instant at which the model stops the clock
MaxTime == 60000
\* the number of interrupts the operator sends at most
MaxSigints == 2
\* a session request is answered within this delay, or never
MaxSessionDelay == 5000
\* a heartbeat request is answered within this delay, or never
MaxPingDelay == 10000

\* ------------------------------------------------------------- configuration

\* Config.retryInterval
retryInterval == 30000
\* the threshold of sendPing's score
SlowThreshold == 5000
\* the exit code of Node's default SIGINT disposition: 128 + the signal's number
DefaultSigintExitCode == 128 + 2

\* JavaScript's undefined and null
Undefined == "undefined"
Null == "null"

\* ------------------------------------------------------------------- inputs

\* A raw line is a sequence of atoms: a blank " " or a word without blanks.
Blank == " "

\* String.prototype.trim on a line: the leading and the trailing blanks go
RECURSIVE TrimLeft(_)
TrimLeft(s) == IF s # <<>> /\ Head(s) = Blank THEN TrimLeft(Tail(s)) ELSE s

RECURSIVE TrimRight(_)
TrimRight(s) ==
    IF s # <<>> /\ s[Len(s)] = Blank THEN TrimRight(SubSeq(s, 1, Len(s) - 1)) ELSE s

Trim(s) == TrimRight(TrimLeft(s))

\* readLines: every line of the file, trimmed; blank lines are kept as ""
readLines(file) == [k \in 1..Len(file) |-> Trim(file[k])]

\* a JavaScript string is falsy exactly when it is empty
Truthy(s) == s # <<>>

\* url.parse(proxy), as far as buildProxyConfig reads it: protocol, hostname, port
UrlParse(s) ==
    IF Len(s) # 1
    THEN [protocol |-> Null, hostname |-> Null, port |-> Null]
    ELSE CASE s[1] = "http://1.2.3.4:8080" ->
                [protocol |-> "http:", hostname |-> "1.2.3.4", port |-> "8080"]
           [] s[1] = "socks5://5.6.7.8:1080" ->
                [protocol |-> "socks5:", hostname |-> "5.6.7.8", port |-> "1080"]
           [] s[1] = "ftp://9.9.9.9:21" ->
                [protocol |-> "ftp:", hostname |-> "9.9.9.9", port |-> "21"]
           [] OTHER -> [protocol |-> Null, hostname |-> Null, port |-> Null]

\* parseInt(port, 10)
ParseInt(p) ==
    CASE p = "8080" -> 8080
      [] p = "1080" -> 1080
      [] p = "21" -> 21
      [] OTHER -> -1

\* ProxyChecker.buildProxyConfig: a plain {host, port, protocol} object for http:,
\* a SocksProxyAgent for socks5:, null for anything else
buildProxyConfig(proxy) ==
    LET proxyUrl == UrlParse(proxy) IN
    IF proxyUrl.protocol = "http:"
    THEN [kind |-> "plainObject", host |-> proxyUrl.hostname,
          port |-> ParseInt(proxyUrl.port)]
    ELSE IF proxyUrl.protocol = "socks5:"
    THEN [kind |-> "SocksProxyAgent", host |-> proxyUrl.hostname,
          port |-> ParseInt(proxyUrl.port)]
    ELSE [kind |-> Null, host |-> Null, port |-> -1]

\* config.httpAgent of getSession and sendPing: set only when proxy is truthy
HttpAgent(proxy) ==
    IF Truthy(proxy)
    THEN buildProxyConfig(proxy)
    ELSE [kind |-> Undefined, host |-> Null, port |-> -1]

\* What axios.post does with config.httpAgent (both URLs are http://): it is handed
\* to http.request as options.agent.  Without an agent the request goes out on a
\* direct connection; a SocksProxyAgent tunnels it through the proxy; an object
\* that is no Agent (no addRequest) makes http.request throw before anything is sent.
Transport(agent) ==
    CASE agent.kind = "SocksProxyAgent" -> "socks5"
      [] agent.kind = "plainObject" -> "throws"
      [] OTHER -> "direct"

\* the request headers of getSession and sendPing
Headers(tok) == [Authorization |-> <<"Bearer">> \o tok]

\* ------------------------------------------------------------ environment

\* the raw lines proxy.txt is made of
ProxyLines == {<<Blank>>, <<"http://1.2.3.4:8080">>, <<"socks5://5.6.7.8:1080", Blank>>,
               <<"ftp://9.9.9.9:21">>}

\* the files of a run
TokenFiles == {<<>>, <<<<Blank>>>>, <<<<"tok123">>>>, <<<<>>, <<Blank, "tok123", Blank>>>>,
               <<<<"tokB">>, <<"tok123">>>>}
ProxyFiles == UNION {[1..n -> ProxyLines] : n \in 0..MaxProxies}

\* response.data.data of a successful session request
SessionData ==
    {[uid |-> "u1", name |-> "alice", browser_id |-> "b1"],
     [uid |-> "u1", name |-> "alice", browser_id |-> Undefined],
     [uid |-> Undefined, name |-> "alice", browser_id |-> "b1"]}

\* the ways a session request fails: the transport, the status, a body without data
SessionFailures == {"transport", "status", "noData"}

\* crypto.randomBytes(8).toString('hex')
RandomHex == {"r1", "r2"}

\* how far the clock moves in one step
Deltas == {5000}

Entries == 1..Len(proxies)

\* ---------------------------------------------------------------- initially

Start ==
    /\ mainPc = "readTokens"
    /\ tokens = <<>>
    /\ proxies = <<>>
    /\ token = <<>>
    /\ task = <<>>
    /\ sessionReq = <<>>
    /\ accountInfo = <<>>
    /\ timer = <<>>
    /\ nextFire = <<>>
    /\ inflight = <<>>
    /\ pings = <<>>
    /\ log = <<>>
    /\ listeners = <<>>
    /\ sigints = 0
    /\ proc = "running"
    /\ exitCode = -1
    /\ now = 0

\* every proxy list up to MaxProxies lines, with one token on file
Init ==
    /\ tokenFile = <<<<"tok123">>>>
    /\ proxyFile \in ProxyFiles
    /\ Start

\* every token file, with a proxy list of at most one line
InitInputs ==
    /\ tokenFile \in TokenFiles
    /\ proxyFile \in {f \in ProxyFiles : Len(f) <= 1}
    /\ Start

\* ------------------------------------------------------------------ helpers

\* the request handed to axios.post; with transport "throws" nothing is sent
Request(url, tok, proxy, data, at) ==
    [url |-> url, headers |-> Headers(tok), agent |-> HttpAgent(proxy),
     transport |-> Transport(HttpAgent(proxy)), data |-> data, startTime |-> at]

\* whether the request went out
OnWire(req) == req.transport # "throws"

\* the records connect writes
SessionRecord(info, proxy) ==
    [level |-> "info", message |-> "Session information", uid |-> info.uid,
     name |-> info.name, useProxy |-> Truthy(proxy)]

RejectedRecord(error, proxy) ==
    [level |-> "error", message |-> "Rejected", error |-> error, proxy |-> proxy]

\* the message of the error connect catches
SessionError(why) ==
    IF why = "noData" THEN "Cannot read properties of undefined (reading 'uid')"
    ELSE "Session request failed"

\* Score with the threshold on the wrong side
ScoreInclusive(pingDuration) == IF pingDuration <= SlowThreshold THEN "good" ELSE "slow"

\* sendPing's score
Score(pingDuration) == IF pingDuration < SlowThreshold THEN "good" ELSE "slow"

\* the records sendPing writes
PingRecord(req, pingDuration) ==
    [level |-> "info", message |-> "Ping sent", uid |-> req.data.id,
     browserId |-> req.data.browser_id, pingDuration |-> pingDuration,
     score |-> Score(pingDuration)]

ProxyErrorRecord(proxy) ==
    [level |-> "error", message |-> "Proxy error", proxy |-> proxy]

\* await Promise.all(promises) resumes main once no connect promise is pending;
\* main then registers its own SIGINT listener (lines 250-255)
AllSettled(t) == \A i \in DOMAIN t : t[i] # "fetching"

MainAfter(t) == IF AllSettled(t) THEN "done" ELSE "awaitAll"

ListenersAfter(ls, t) == IF AllSettled(t) THEN Append(ls, [kind |-> "exit", entry |-> 0]) ELSE ls

\* ------------------------------------------------------------------ actions

\* MainReadTokens without the check of line 228
MainReadTokensUnchecked ==
    /\ proc = "running"
    /\ mainPc = "readTokens"
    /\ tokens' = readLines(tokenFile)
    /\ mainPc' = "readProxies"
    /\ UNCHANGED <<tokenFile, proxyFile, proxies, token, task, sessionReq, accountInfo,
                   timer, nextFire, inflight, pings, log, listeners, sigints, proc,
                   exitCode, now>>

\* main, lines 227-234: token.txt has been read
MainReadTokens ==
    /\ proc = "running"
    /\ mainPc = "readTokens"
    /\ tokens' = readLines(tokenFile)
    /\ mainPc' = IF Len(readLines(tokenFile)) = 0 THEN "aborted" ELSE "readProxies"
    /\ UNCHANGED <<tokenFile, proxyFile, proxies, token, task, sessionReq, accountInfo,
                   timer, nextFire, inflight, pings, log, listeners, sigints, proc,
                   exitCode, now>>

\* main, lines 234-250: proxy.txt has been read; one bot.connect per line, each
\* running getSession up to its axios.post
MainStartTasks ==
    /\ proc = "running"
    /\ mainPc = "readProxies"
    /\ LET ps == readLines(proxyFile)
           tok == IF tokens = <<>> THEN <<Undefined>> ELSE tokens[1]
           req(i) == Request("sessionURL", tok, ps[i], <<>>, now)
           t == [i \in 1..Len(ps) |->
                    IF req(i).transport = "throws" THEN "rejected" ELSE "fetching"]
       IN /\ proxies' = ps
          /\ IF Len(ps) = 0
             THEN /\ mainPc' = "aborted"
                  /\ UNCHANGED <<token, task, sessionReq, accountInfo, timer, nextFire,
                                 inflight, pings, log, listeners>>
             ELSE /\ token' = tok
                  /\ task' = t
                  /\ sessionReq' = [i \in 1..Len(ps) |-> req(i)]
                  /\ log' = [i \in 1..Len(ps) |->
                        IF req(i).transport = "throws"
                        THEN <<RejectedRecord(SessionError("transport"), ps[i])>>
                        ELSE <<>>]
                  /\ accountInfo' = [i \in 1..Len(ps) |-> Undefined]
                  /\ timer' = [i \in 1..Len(ps) |-> "none"]
                  /\ nextFire' = [i \in 1..Len(ps) |-> -1]
                  /\ inflight' = [i \in 1..Len(ps) |-> {}]
                  /\ pings' = [i \in 1..Len(ps) |-> <<>>]
                  /\ mainPc' = MainAfter(t)
                  /\ listeners' = ListenersAfter(listeners, t)
    /\ UNCHANGED <<tokenFile, proxyFile, tokens, sigints, proc, exitCode, now>>

\* connect, lines 89-107: the session request of entry i is answered with data
SessionSucceeds(i, data) ==
    /\ proc = "running"
    /\ i \in Entries
    /\ task[i] = "fetching"
    /\ now - sessionReq[i].startTime <= MaxSessionDelay
    /\ task' = [task EXCEPT ![i] = "looping"]
    /\ accountInfo' = [accountInfo EXCEPT ![i] = data]
    /\ log' = [log EXCEPT ![i] = Append(@, SessionRecord(data, proxies[i]))]
    /\ timer' = [timer EXCEPT ![i] = "armed"]
    /\ nextFire' = [nextFire EXCEPT ![i] = now + retryInterval]
    /\ listeners' = ListenersAfter(Append(listeners, [kind |-> "clearInterval", entry |-> i]),
                                   task')
    /\ mainPc' = MainAfter(task')
    /\ UNCHANGED <<tokenFile, proxyFile, tokens, proxies, token, sessionReq, inflight,
                   pings, sigints, proc, exitCode, now>>

\* SessionRejected as a fail-fast orchestrator would run it: the first rejection
\* gives up the sibling requests and stops the sibling loops
SessionRejectedFailFast(i, why) ==
    /\ proc = "running"
    /\ i \in Entries
    /\ task[i] = "fetching"
    /\ now - sessionReq[i].startTime <= MaxSessionDelay
    /\ task' = [j \in Entries |-> IF task[j] = "fetching" THEN "rejected" ELSE task[j]]
    /\ timer' = [j \in Entries |-> IF timer[j] = "armed" THEN "cleared" ELSE timer[j]]
    /\ log' = [log EXCEPT ![i] = Append(@, RejectedRecord(SessionError(why), proxies[i]))]
    /\ listeners' = ListenersAfter(listeners, task')
    /\ mainPc' = MainAfter(task')
    /\ UNCHANGED <<tokenFile, proxyFile, tokens, proxies, token, sessionReq, accountInfo,
                   nextFire, inflight, pings, sigints, proc, exitCode, now>>

\* SessionRejected with the interval set up outside connect's try block: the
\* rejection is logged and the heartbeat loop starts all the same
SessionRejectedStartsLoop(i, why) ==
    /\ proc = "running"
    /\ i \in Entries
    /\ task[i] = "fetching"
    /\ now - sessionReq[i].startTime <= MaxSessionDelay
    /\ task' = [task EXCEPT ![i] = "rejected"]
    /\ log' = [log EXCEPT ![i] = Append(@, RejectedRecord(SessionError(why), proxies[i]))]
    /\ timer' = [timer EXCEPT ![i] = "armed"]
    /\ nextFire' = [nextFire EXCEPT ![i] = now + retryInterval]
    /\ listeners' = ListenersAfter(listeners, task')
    /\ mainPc' = MainAfter(task')
    /\ UNCHANGED <<tokenFile, proxyFile, tokens, proxies, token, sessionReq, accountInfo,
                   inflight, pings, sigints, proc, exitCode, now>>

\* connect, lines 108-111: the session request of entry i fails, or its response
\* carries no data object
SessionRejected(i, why) ==
    /\ proc = "running"
    /\ i \in Entries
    /\ task[i] = "fetching"
    /\ now - sessionReq[i].startTime <= MaxSessionDelay
    /\ task' = [task EXCEPT ![i] = "rejected"]
    /\ log' = [log EXCEPT ![i] = Append(@, RejectedRecord(SessionError(why), proxies[i]))]
    /\ listeners' = ListenersAfter(listeners, task')
    /\ mainPc' = MainAfter(task')
    /\ UNCHANGED <<tokenFile, proxyFile, tokens, proxies, token, sessionReq, accountInfo,
                   timer, nextFire, inflight, pings, sigints, proc, exitCode, now>>

\* sendPing, lines 137-145: the heartbeat payload; the identifiers the session did
\* not supply are drawn from crypto.randomBytes
PingData(info, ru, rb, at) ==
    [id |-> IF info.uid # Undefined THEN info.uid ELSE ru,
     browser_id |-> IF info.browser_id # Undefined THEN info.browser_id ELSE rb,
     timestamp |-> at \div 1000,
     version |-> "2.2.7"]

\* TimerFires in an orchestrator that starts the heartbeats only once every session
\* request has settled: a pending sibling holds the tick back
TimerFiresAfterAllSettled(i, ru, rb) ==
    /\ proc = "running"
    /\ mainPc = "done"
    /\ i \in Entries
    /\ timer[i] = "armed"
    /\ now = nextFire[i]
    /\ nextFire' = [nextFire EXCEPT ![i] = @ + retryInterval]
    /\ LET req == Request("pingURL", token, proxies[i],
                          PingData(accountInfo[i], ru, rb, now), now)
       IN IF req.transport = "throws"
          THEN /\ log' = [log EXCEPT ![i] = Append(@, ProxyErrorRecord(proxies[i]))]
               /\ UNCHANGED <<inflight, pings>>
          ELSE /\ inflight' = [inflight EXCEPT ![i] = @ \cup {req}]
               /\ pings' = [pings EXCEPT ![i] = Append(@, req)]
               /\ UNCHANGED log
    /\ UNCHANGED <<tokenFile, proxyFile, mainPc, tokens, proxies, token, task, sessionReq,
                   accountInfo, timer, listeners, sigints, proc, exitCode, now>>

\* the setInterval callback, lines 98-105, with sendPing up to its axios.post,
\* lines 136-163: the timer of entry i is due; it is re-armed one interval later
TimerFires(i, ru, rb) ==
    /\ proc = "running"
    /\ i \in Entries
    /\ timer[i] = "armed"
    /\ now = nextFire[i]
    /\ nextFire' = [nextFire EXCEPT ![i] = @ + retryInterval]
    /\ LET req == Request("pingURL", token, proxies[i],
                          PingData(accountInfo[i], ru, rb, now), now)
       IN IF req.transport = "throws"
          THEN /\ log' = [log EXCEPT ![i] = Append(@, ProxyErrorRecord(proxies[i]))]
               /\ UNCHANGED <<inflight, pings>>
          ELSE /\ inflight' = [inflight EXCEPT ![i] = @ \cup {req}]
               /\ pings' = [pings EXCEPT ![i] = Append(@, req)]
               /\ UNCHANGED log
    /\ UNCHANGED <<tokenFile, proxyFile, mainPc, tokens, proxies, token, task, sessionReq,
                   accountInfo, timer, listeners, sigints, proc, exitCode, now>>

\* sendPing, lines 165-178: the heartbeat request req of entry i is answered
PingSucceeds(i, req) ==
    /\ proc = "running"
    /\ i \in Entries
    /\ req \in inflight[i]
    /\ now - req.startTime <= MaxPingDelay
    /\ inflight' = [inflight EXCEPT ![i] = @ \ {req}]
    /\ log' = [log EXCEPT ![i] = Append(@, PingRecord(req, now - req.startTime))]
    /\ UNCHANGED <<tokenFile, proxyFile, mainPc, tokens, proxies, token, task, sessionReq,
                   accountInfo, timer, nextFire, pings, listeners, sigints, proc,
                   exitCode, now>>

\* PingFails with a re-login: the failure sends the session request again
PingFailsRefetches(i, req) ==
    /\ proc = "running"
    /\ i \in Entries
    /\ req \in inflight[i]
    /\ now - req.startTime <= MaxPingDelay
    /\ inflight' = [inflight EXCEPT ![i] = @ \ {req}]
    /\ log' = [log EXCEPT ![i] = Append(@, ProxyErrorRecord(proxies[i]))]
    /\ sessionReq' = [sessionReq EXCEPT
                        ![i] = Request("sessionURL", token, proxies[i], <<>>, now)]
    /\ UNCHANGED <<tokenFile, proxyFile, mainPc, tokens, proxies, token, task,
                   accountInfo, timer, nextFire, pings, listeners, sigints, proc,
                   exitCode, now>>

\* PingFails as a loop that gives up on an error would run it: the failure
\* clears the interval
PingFailsStopsLoop(i, req) ==
    /\ proc = "running"
    /\ i \in Entries
    /\ req \in inflight[i]
    /\ now - req.startTime <= MaxPingDelay
    /\ inflight' = [inflight EXCEPT ![i] = @ \ {req}]
    /\ log' = [log EXCEPT ![i] = Append(@, ProxyErrorRecord(proxies[i]))]
    /\ timer' = [timer EXCEPT ![i] = "cleared"]
    /\ UNCHANGED <<tokenFile, proxyFile, mainPc, tokens, proxies, token, task, sessionReq,
                   accountInfo, nextFire, pings, listeners, sigints, proc,
                   exitCode, now>>

\* PingFails with a sendPing that rethrows after logging, so that the timer
\* callback's catch (lines 101-104) logs the same failure again
PingFailsLogsTwice(i, req) ==
    /\ proc = "running"
    /\ i \in Entries
    /\ req \in inflight[i]
    /\ now - req.startTime <= MaxPingDelay
    /\ inflight' = [inflight EXCEPT ![i] = @ \ {req}]
    /\ log' = [log EXCEPT ![i] =
                  Append(Append(@, ProxyErrorRecord(proxies[i])),
                         [level |-> "error", message |-> "Ping error"])]
    /\ UNCHANGED <<tokenFile, proxyFile, mainPc, tokens, proxies, token, task, sessionReq,
                   accountInfo, timer, nextFire, pings, listeners, sigints, proc,
                   exitCode, now>>

\* sendPing, lines 179-183: the heartbeat request req of entry i fails
PingFails(i, req) ==
    /\ proc = "running"
    /\ i \in Entries
    /\ req \in inflight[i]
    /\ now - req.startTime <= MaxPingDelay
    /\ inflight' = [inflight EXCEPT ![i] = @ \ {req}]
    /\ log' = [log EXCEPT ![i] = Append(@, ProxyErrorRecord(proxies[i]))]
    /\ UNCHANGED <<tokenFile, proxyFile, mainPc, tokens, proxies, token, task, sessionReq,
                   accountInfo, timer, nextFire, pings, listeners, sigints, proc,
                   exitCode, now>>

\* the listeners process.emit('SIGINT') runs: all of them in registration order, up
\* to the one that calls process.exit
FirstExit(ls) ==
    IF \E k \in 1..Len(ls) : ls[k].kind = "exit"
    THEN CHOOSE k \in 1..Len(ls) :
            /\ ls[k].kind = "exit"
            /\ \A j \in 1..(k - 1) : ls[j].kind # "exit"
    ELSE Len(ls) + 1

Cleared(ls) ==
    {ls[k].entry : k \in {j \in 1..Len(ls) : j < FirstExit(ls) /\ ls[j].kind = "clearInterval"}}

\* The operator interrupts the process.  With no listener registered Node's default
\* disposition ends the process; with listeners the default is off and they run:
\* line 107 (clearInterval) of every started loop, lines 252-255 (process.exit(0)).
Sigint ==
    /\ proc = "running"
    /\ sigints < MaxSigints
    /\ sigints' = sigints + 1
    /\ timer' = [i \in DOMAIN timer |->
                    IF i \in Cleared(listeners) /\ timer[i] = "armed"
                    THEN "cleared" ELSE timer[i]]
    /\ IF listeners = <<>>
       THEN proc' = "exited" /\ exitCode' = DefaultSigintExitCode
       ELSE IF FirstExit(listeners) <= Len(listeners)
       THEN proc' = "exited" /\ exitCode' = 0
       ELSE UNCHANGED <<proc, exitCode>>
    /\ UNCHANGED <<tokenFile, proxyFile, mainPc, tokens, proxies, token, task, sessionReq,
                   accountInfo, nextFire, inflight, pings, log, listeners, now>>

\* Time passes, counted from the start of the tasks (nothing reads the clock
\* before).  A due timer fires before the clock moves on.
Advance(d) ==
    /\ proc = "running"
    /\ mainPc \in {"awaitAll", "done"}
    /\ now + d <= MaxTime
    /\ \A i \in Entries : timer[i] = "armed" => now + d <= nextFire[i]
    /\ now' = now + d
    /\ UNCHANGED <<tokenFile, proxyFile, mainPc, tokens, proxies, token, task, sessionReq,
                   accountInfo, timer, nextFire, inflight, pings, log, listeners,
                   sigints, proc, exitCode>>

\* Node ends the process with code 0 once main has returned and neither a timer
\* nor a request keeps the event loop alive (a signal listener does not)
ExitWhenIdle ==
    /\ proc = "running"
    /\ mainPc \in {"done", "aborted"}
    /\ \A i \in Entries : timer[i] # "armed" /\ inflight[i] = {}
    /\ proc' = "exited"
    /\ exitCode' = 0
    /\ UNCHANGED <<tokenFile, proxyFile, mainPc, tokens, proxies, token, task, sessionReq,
                   accountInfo, timer, nextFire, inflight, pings, log, listeners,
                   sigints, now>>

Next ==
    \/ MainReadTokens
    \/ MainStartTasks
    \/ \E i \in Entries, data \in SessionData : SessionSucceeds(i, data)
    \/ \E i \in Entries, why \in SessionFailures : SessionRejected(i, why)
    \/ \E i \in Entries, ru \in RandomHex, rb \in RandomHex : TimerFires(i, ru, rb)
    \/ \E i \in Entries : \E req \in inflight[i] : PingSucceeds(i, req)
    \/ \E i \in Entries : \E req \in inflight[i] : PingFails(i, req)
    \/ Sigint
    \/ \E d \in Deltas : Advance(d)
    \/ ExitWhenIdle

Spec == Init /\ [][Next]_vars

SpecInputs == InitInputs /\ [][Next]_vars

\* The event loop runs: time passes, and a timer that is due fires.
Fairness ==
    /\ WF_vars(\E d \in Deltas : Advance(d))
    /\ \A i \in 1..MaxProxies :
          WF_vars(\E ru \in RandomHex, rb \in RandomHex : TimerFires(i, ru, rb))

FairSpec == Spec /\ Fairness

FairSpecInputs == SpecInputs /\ Fairness

\* ------------------------------------------------------------------- claims

\* what a rejection of entry p writes: one more "Rejected" record in p's log
RejectedStep(p) ==
    /\ Len(log'[p]) = Len(log[p]) + 1
    /\ log'[p][Len(log'[p])].message = "Rejected"

\* C1: isolation of session failures.  A step that rejects entry p leaves every
\* other entry q as it was: its task, its session request, its timer and schedule,
\* its heartbeats; and an answer q's session request could take before the step it
\* can still take after it.
C1_Isolation ==
    [][\A p \in Entries :
            RejectedStep(p) =>
                \A q \in Entries \ {p} :
                    /\ task'[q] = task[q]
                    /\ timer'[q] = timer[q]
                    /\ nextFire'[q] = nextFire[q]
                    /\ sessionReq'[q] = sessionReq[q]
                    /\ inflight'[q] = inflight[q]
                    /\ pings'[q] = pings[q]
                    /\ \A data \in SessionData :
                          ENABLED SessionSucceeds(q, data) =>
                              (ENABLED SessionSucceeds(q, data))']_vars

\* C1 witness: p's session request was sent and rejected, while q's loop runs, has
\* ticked and is still armed
C1_Witness ==
    \E p \in Entries, q \in Entries :
        /\ p # q
        /\ task[p] = "rejected"
        /\ OnWire(sessionReq[p])
        /\ task[q] = "looping"
        /\ timer[q] = "armed"
        /\ pings[q] # <<>>

\* what a failed heartbeat of entry i writes: one more "Proxy error" record in i's log
PingFailedStep(i) ==
    /\ Len(log'[i]) = Len(log[i]) + 1
    /\ log'[i][Len(log'[i])].message = "Proxy error"

\* the heartbeats entry i has failed so far
Failures(i) == Len(SelectSeq(log[i], LAMBDA r : r.message = "Proxy error"))

\* C2: a failed heartbeat tick never stops the loop.  The step in which a heartbeat
\* of entry i fails leaves i's timer as it was, armed if it was armed, and due at
\* the same instant, and puts no heartbeat on the wire; and, with the event loop
\* running, an armed timer that is due within the model's horizon fires, however
\* many heartbeats of the loop have failed, unless an interrupt ends the loop first.
C2_FailedTickKeepsLoop ==
    /\ [][\A i \in Entries :
            PingFailedStep(i) =>
                /\ timer'[i] = timer[i]
                /\ nextFire'[i] = nextFire[i]
                /\ pings'[i] = pings[i]
                /\ inflight'[i] \subseteq inflight[i]]_vars
    /\ \A i \in 1..MaxProxies : \A n \in 0..2 :
          (i \in Entries /\ timer[i] = "armed" /\ nextFire[i] <= MaxTime
              /\ Len(pings[i]) = n)
            ~> (\/ i \in Entries /\ Len(pings[i]) > n
                \/ sigints > 0)

\* C2 witness: the first heartbeat of a loop has failed, the second one went out at
\* the instant scheduled from the start, and no interrupt was sent
C2_Witness ==
    \E i \in Entries :
        /\ Failures(i) = 1
        /\ inflight[i] # {}
        /\ Len(pings[i]) = 2
        /\ pings[i][2].startTime = pings[i][1].startTime + retryInterval
        /\ timer[i] = "armed"
        /\ sigints = 0

\* C3: an interrupt stops every heartbeat loop.  Once an interrupt has been
\* delivered no entry starts a heartbeat tick: no further heartbeat goes out.
C3_InterruptStopsEveryLoop ==
    [][sigints > 0 => \A i \in Entries : pings'[i] = pings[i]]_vars

\* C4: an interrupt delivered once the tasks are started ends the process, with
\* exit code 0.
C4_InterruptExitsWithZero ==
    (sigints > 0 /\ mainPc \in {"awaitAll", "done"}) =>
        (proc = "exited" /\ exitCode = 0)

\* section 4.1 of the specification: a proxy entry parses when its scheme is http
\* or socks5 and a host and a port can be extracted
ParseOk(proxy) ==
    /\ Truthy(proxy)
    /\ UrlParse(proxy).protocol \in {"http:", "socks5:"}
    /\ UrlParse(proxy).hostname # Null
    /\ UrlParse(proxy).port # Null

\* C5: an entry that does not parse is skipped.  No session request and no
\* heartbeat is issued for it, and the entries getSession was called for are as
\* many as the entries that parse.
C5_UnparsedEntrySkipped ==
    /\ \A i \in Entries :
          ~ParseOk(proxies[i]) =>
              /\ i \in DOMAIN sessionReq => ~OnWire(sessionReq[i])
              /\ i \in DOMAIN pings => pings[i] = <<>>
    /\ Cardinality(DOMAIN sessionReq) = Cardinality({i \in Entries : ParseOk(proxies[i])})

\* C6: with no line in token.txt or none in proxy.txt the run aborts before any
\* task is started: no session request, no heartbeat, no timer, no listener.
C6_EmptyInputAborts ==
    (readLines(tokenFile) = <<>> \/ readLines(proxyFile) = <<>>) =>
        /\ mainPc \in {"readTokens", "readProxies", "aborted"}
        /\ task = <<>>
        /\ sessionReq = <<>>
        /\ pings = <<>>
        /\ timer = <<>>
        /\ listeners = <<>>

\* C6 witness: token.txt holds a line, proxy.txt holds none, and main has returned
C6_Witness ==
    /\ tokens # <<>>
    /\ proxyFile = <<>>
    /\ mainPc = "aborted"
    /\ proc = "exited"

\* C7: the browser_id is stable per loop.  Any two heartbeats of one loop carry the
\* same browser_id, also when the session response carried none.
C7_BrowserIdStable ==
    \A i \in Entries :
        \A a \in 1..Len(pings[i]), b \in 1..Len(pings[i]) :
            pings[i][a].data.browser_id = pings[i][b].data.browser_id

\* the first non-empty line of a file, or no line at all
RECURSIVE FirstNonEmpty(_)
FirstNonEmpty(lines) ==
    IF lines = <<>> THEN <<>>
    ELSE IF Truthy(Head(lines)) THEN <<Head(lines)>>
    ELSE FirstNonEmpty(Tail(lines))

\* C8: the credential of every request is the first non-empty line of token.txt,
\* and a token.txt of blank lines only counts as holding no credential: the run aborts.
C8_FirstNonEmptyLine ==
    LET first == FirstNonEmpty(readLines(tokenFile)) IN
    /\ first = <<>> => sessionReq = <<>>
    /\ first # <<>> =>
          \A i \in DOMAIN sessionReq :
              /\ sessionReq[i].headers = Headers(first[1])
              /\ \A k \in 1..Len(pings[i]) : pings[i][k].headers = Headers(first[1])

\* C9: every request of an entry goes through that entry's proxy.  None is sent on
\* a direct connection, and the heartbeats use the agent of the session request.
C9_RoutedThroughProxy ==
    \A i \in DOMAIN sessionReq :
        /\ OnWire(sessionReq[i]) => sessionReq[i].transport # "direct"
        /\ \A k \in 1..Len(pings[i]) :
              /\ pings[i][k].transport # "direct"
              /\ pings[i][k].agent = sessionReq[i].agent

\* what a successful heartbeat of entry i writes: one more "Ping sent" record
PingSentStep(i) ==
    /\ Len(log'[i]) = Len(log[i]) + 1
    /\ log'[i][Len(log'[i])].message = "Ping sent"

\* C10: the score of a successful heartbeat is "good" exactly when its duration is
\* below 5000 ms and "slow" otherwise; the step that records a heartbeat, slow ones
\* included, writes that one info record and no other, sends nothing, and leaves
\* the timer and its schedule alone.
C10_Scoring ==
    /\ [](\A i \in DOMAIN log : \A k \in 1..Len(log[i]) :
            log[i][k].message = "Ping sent" =>
                /\ log[i][k].level = "info"
                /\ log[i][k].score \in {"good", "slow"}
                /\ log[i][k].score = "good" <=> log[i][k].pingDuration < 5000)
    /\ [][\A i \in Entries :
            PingSentStep(i) =>
                /\ SubSeq(log'[i], 1, Len(log[i])) = log[i]
                /\ timer'[i] = timer[i]
                /\ nextFire'[i] = nextFire[i]
                /\ pings'[i] = pings[i]
                /\ inflight'[i] \subseteq inflight[i]]_vars

\* C10 witness: a loop with a heartbeat of 0 ms scored good and one of exactly
\* 5000 ms scored slow, its timer still armed
C10_Witness ==
    \E i \in Entries :
        /\ timer[i] = "armed"
        /\ \E a \in 1..Len(log[i]), b \in 1..Len(log[i]) :
              /\ log[i][a].message = "Ping sent"
              /\ log[i][a].pingDuration = 0
              /\ log[i][a].score = "good"
              /\ log[i][b].message = "Ping sent"
              /\ log[i][b].pingDuration = 5000
              /\ log[i][b].score = "slow"

\* C11: shutdown does not abort in-flight work.  A heartbeat request that is in
\* flight when an interrupt arrives, and could be answered then, can still be
\* answered after the interrupt has been handled.
C11_InFlightSurvivesInterrupt ==
    [][sigints' = sigints + 1 =>
          \A i \in Entries : \A req \in inflight[i] :
              ENABLED PingSucceeds(i, req) => (ENABLED PingSucceeds(i, req))']_vars

\* C12: the session precedes the heartbeats.  An entry whose session has not
\* succeeded has no timer, has sent no heartbeat and has no SIGINT listener; and a
\* rejected entry stays rejected, whatever made the session request fail.
C12_SessionPrecedesHeartbeats ==
    /\ [](\A i \in DOMAIN task :
            task[i] # "looping" =>
                /\ timer[i] = "none"
                /\ pings[i] = <<>>
                /\ inflight[i] = {}
                /\ \A k \in 1..Len(listeners) : listeners[k].entry # i)
    /\ [][\A i \in Entries : task[i] = "rejected" => task'[i] = "rejected"]_vars

\* C12 witness: a session response without the data object was rejected, and the
\* first interval has passed without a timer or a heartbeat for that entry
C12_Witness ==
    \E i \in Entries :
        /\ task[i] = "rejected"
        /\ log[i] = <<RejectedRecord(SessionError("noData"), proxies[i])>>
        /\ now > retryInterval
        /\ timer[i] = "none"
        /\ pings[i] = <<>>

\* C13: at most one session request per entry.  Once the tasks are started no step
\* issues a session request again: the request of every entry stays the one sent
\* at the start, a settled entry never goes back to fetching, and the identity a
\* loop obtained is the one it keeps.
C13_OneSessionRequest ==
    [][\A i \in Entries :
          /\ sessionReq'[i] = sessionReq[i]
          /\ task[i] # "fetching" =>
                /\ task'[i] = task[i]
                /\ accountInfo'[i] = accountInfo[i]]_vars

\* C13 witness: two heartbeats of a loop have failed, and its session request is
\* still the one sent at the start
C13_Witness ==
    \E i \in Entries :
        /\ task[i] = "looping"
        /\ Failures(i) = 2
        /\ sessionReq[i].startTime = 0

\* C14: a loop goes Scheduled -> Sending -> Scheduled.  A tick starts only when the
\* previous heartbeat is over, so a loop never has two heartbeat requests in flight.
C14_OneHeartbeatInFlight ==
    \A i \in DOMAIN inflight : Cardinality(inflight[i]) <= 1

\* C15: every heartbeat of a loop carries the uid of the loop's session identity as
\* its id, so any two heartbeats of one loop carry the same id; and a tick leaves
\* the identity as it is.
C15_IdIsSessionUid ==
    /\ [](\A i \in DOMAIN pings : \A k \in 1..Len(pings[i]) :
            /\ pings[i][k].data.id = accountInfo[i].uid
            /\ pings[i][k].data.id = pings[i][1].data.id)
    /\ [][\A i \in Entries :
            task[i] = "looping" => accountInfo'[i] = accountInfo[i]]_vars

\* entry p has a request that has not completed, and may never complete
Pending(p) == task[p] = "fetching" \/ inflight[p] # {}

\* C16: a hung proxy affects only its own task.  While a request of entry p is
\* pending, however long, any other entry q can still have its session answered;
\* the clock never passes the instant q's timer is due and q's tick can start at
\* that instant; q's schedule stays one interval per heartbeat sent; and an
\* interrupt clears q's armed timer.
C16_HungProxyIsLocal ==
    /\ [](\A p \in Entries, q \in Entries :
            (p # q /\ Pending(p) /\ proc = "running") =>
                /\ (task[q] = "fetching"
                      /\ now - sessionReq[q].startTime <= MaxSessionDelay) =>
                      \A data \in SessionData : ENABLED SessionSucceeds(q, data)
                /\ timer[q] = "armed" =>
                      /\ now <= nextFire[q]
                      /\ now = nextFire[q] =>
                            \A ru \in RandomHex, rb \in RandomHex :
                                ENABLED TimerFires(q, ru, rb))
    /\ [][\A p \in Entries, q \in Entries :
            (p # q /\ Pending(p)) =>
                /\ (timer[q] = "armed" /\ timer'[q] = "armed") =>
                      nextFire'[q] - retryInterval * Len(pings'[q])
                          = nextFire[q] - retryInterval * Len(pings[q])
                /\ (sigints' = sigints + 1 /\ timer[q] = "armed") =>
                      timer'[q] = "cleared"]_vars

\* C16 witness: p's session request has been pending beyond any answer, q has sent
\* two heartbeats one interval apart, and an interrupt has cleared q's timer
C16_Witness ==
    \E p \in Entries, q \in Entries :
        /\ p # q
        /\ task[p] = "fetching"
        /\ now - sessionReq[p].startTime > MaxSessionDelay
        /\ Len(pings[q]) = 2
        /\ pings[q][2].startTime = pings[q][1].startTime + retryInterval
        /\ sigints = 1
        /\ timer[q] = "cleared"

\* the number of records of entry i whose message is one of msgs
Records(i, msgs) == Cardinality({k \in 1..Len(log[i]) : log[i][k].message \in msgs})

\* C17: one log record per session attempt and one per heartbeat tick.  An entry
\* whose session request has not settled has no record; once it has settled the
\* first record is its one session record (success or rejection).  Every heartbeat
\* sent is either still in flight or has exactly one record, "Ping sent" or "Proxy
\* error"; the log holds no other record, so a failed tick is logged once.
C17_OneRecordEach ==
    \A i \in DOMAIN log :
        /\ task[i] = "fetching" => log[i] = <<>>
        /\ task[i] = "looping" =>
              /\ Records(i, {"Session information"}) = 1
              /\ log[i][1].message = "Session information"
        /\ task[i] = "rejected" =>
              /\ Records(i, {"Rejected"}) = 1
              /\ log[i][1].message = "Rejected"
        /\ Records(i, {"Session information", "Rejected"}) <= 1
        /\ Records(i, {"Ping sent", "Proxy error"}) + Cardinality(inflight[i])
              = Len(pings[i])
        /\ Len(log[i]) = Records(i, {"Session information", "Rejected"})
                           + Records(i, {"Ping sent", "Proxy error"})

\* C17 witness: a loop whose first tick succeeded and whose second tick failed
C17_Witness ==
    \E i \in Entries :
        /\ Len(log[i]) = 3
        /\ log[i][2].message = "Ping sent"
        /\ log[i][3].message = "Proxy error"
        /\ inflight[i] = {}

====
